---- MODULE Spec2Model ----
(***************************************************************************)
(* Notes editor (notes_frontend/src/App.js): the in-memory note store of   *)
(* useLocalNotes, the remote API client, and the handlers of App that      *)
(* apply a mutation optimistically, call the backend and reconcile or roll *)
(* back when the call resolves.                                            *)
(*                                                                         *)
(* One step of the model is one task of the JavaScript event loop: a user  *)
(* event handler, a promise continuation or a timer, together with the     *)
(* render and the effects React runs for the state it has set.  Strings    *)
(* are sequences, timestamps are integers (ISO timestamps order as the     *)
(* instants they denote), identifiers are positive integers and 0 stands   *)
(* for null / undefined.                                                   *)
(***************************************************************************)
EXTENDS Integers, Sequences, FiniteSets, TLC

VARIABLES
    enabled,      \* createApiClient: Boolean(REACT_APP_API_BASE)
    mounted,      \* mounted.current
    notes,        \* useLocalNotes: the notes state (the Note Store)
    selectedId,   \* App: selectedId (0 = null)
    draft,        \* App: draft (NoNote = null)
    validation,   \* App: validation
    isSaving,     \* App: isSaving
    toast,        \* App: toast (NoToast = null)
    now,          \* the clock read by new Date()
    nextId,       \* number of identifiers uid() has handed out
    listIds,      \* number of them handed out to listed notes
    ops,          \* remote create / delete / update calls in flight, each
                  \* with the values its continuation closes over
    boot,         \* the listNotes() call of the latest bootstrap effect
    listCalls,    \* number of listNotes() calls issued
    replaceAlls,  \* number of remote listings applied (none, one, many)
    acts          \* number of user actions handled

vars == << enabled, mounted, notes, selectedId, draft, validation, isSaving,
           toast, now, nextId, listIds, ops, boot, listCalls, replaceAlls, acts >>

----------------------------------------------------------------------------
(* Bounds of the model *)

MaxTime == 2          \* clock values 1..MaxTime
MaxActions == 3       \* user actions (new, delete, select, edit, save) in a run
MaxListCalls == 8     \* listNotes() calls in a run
MaxListUid == 1       \* identifiers uid() hands out to listed notes in a run

(* Program constants *)

MaxTitleLen == 120

----------------------------------------------------------------------------
(* Strings.  A title is the sequence of its characters.  A content is a    *)
(* sequence of segments, each a white-space character or a stretch of text *)
(* that neither starts nor ends with one: only trim reads a content.       *)

WelcomeTitle ==
    << "W", "e", "l", "c", "o", "m", "e", " ", "t", "o", " ", "N", "o", "t", "e", "s" >>

WelcomeContent ==
    << "This is your Ocean Professional themed Notes app. Create, edit, and delete notes. Try searching from the left." >>

ProTipTitle ==
    << "P", "r", "o", " ", "t", "i", "p" >>

ProTipContent ==
    << "If a backend is configured via REACT_APP_API_BASE, the app will sync with it automatically." >>

Untitled ==
    << "U", "n", "t", "i", "t", "l", "e", "d" >>

\* The white space String.prototype.trim removes, as far as the model's
\* alphabet has it.
IsWhitespace(c) == c \in {" ", "\t", "\n"}

RECURSIVE TrimStart(_)
TrimStart(s) ==
    IF s # << >> /\ IsWhitespace(Head(s)) THEN TrimStart(Tail(s)) ELSE s

RECURSIVE TrimEnd(_)
TrimEnd(s) ==
    IF s # << >> /\ IsWhitespace(s[Len(s)])
    THEN TrimEnd(SubSeq(s, 1, Len(s) - 1))
    ELSE s

\* String.prototype.trim
Trim(s) == TrimEnd(TrimStart(s))

\* c repeated n times
Repeat(c, n) == [i \in 1..n |-> c]

----------------------------------------------------------------------------
(* Notes and the store *)

NoNote == [id |-> 0, title |-> << >>, content |-> << >>, updatedAt |-> 0]

NoToast == [message |-> "", variant |-> ""]

Toast(message, variant) == [message |-> message, variant |-> variant]

Ids(ns) == {ns[i].id : i \in 1..Len(ns)}

\* Array.prototype.find on n.id === id: the first match, or undefined
Find(ns, id) ==
    IF \E i \in 1..Len(ns) : ns[i].id = id
    THEN ns[CHOOSE i \in 1..Len(ns) :
                /\ ns[i].id = id
                /\ \A j \in 1..(i - 1) : ns[j].id # id]
    ELSE NoNote

\* useLocalNotes.create: the item built from data, and the store with it
\* prepended
CreateItem(data, id, t) ==
    [id |-> id,
     title |-> IF Trim(data.title) # << >> THEN Trim(data.title) ELSE Untitled,
     content |-> Trim(data.content),
     updatedAt |-> t]

\* create putting the item last
PutLast(item, prev) == prev \o << item >>

Prepend(item, prev) == << item >> \o prev

\* useLocalNotes.update: { ...n, ...data, updatedAt: new Date().toISOString() }
\* for every note whose id is id.  data is a record holding some of the
\* fields of a note.
Merge(n, data, t) ==
    [id |-> IF "id" \in DOMAIN data THEN data.id ELSE n.id,
     title |-> IF "title" \in DOMAIN data THEN data.title ELSE n.title,
     content |-> IF "content" \in DOMAIN data THEN data.content ELSE n.content,
     updatedAt |-> t]

Update(prev, id, data, t) ==
    [i \in 1..Len(prev) |-> IF prev[i].id = id THEN Merge(prev[i], data, t) ELSE prev[i]]

\* remove with the test of the filter inverted
RECURSIVE RemoveInverted(_, _)
RemoveInverted(prev, id) ==
    IF prev = << >> THEN << >>
    ELSE IF Head(prev).id = id
         THEN << Head(prev) >> \o RemoveInverted(Tail(prev), id)
         ELSE RemoveInverted(Tail(prev), id)

\* useLocalNotes.remove: prev.filter((n) => n.id !== id)
RECURSIVE Remove(_, _)
Remove(prev, id) ==
    IF prev = << >> THEN << >>
    ELSE IF Head(prev).id # id
         THEN << Head(prev) >> \o Remove(Tail(prev), id)
         ELSE Remove(Tail(prev), id)

----------------------------------------------------------------------------
(* Rendering *)

\* Counting calls as none, one, many: c + n, and 2 for anything above 1.
Count(c, n) == IF c + n > 2 THEN 2 ELSE c + n

\* The effect on [selectedId, notes]: it runs when setNotes was called
\* (every updater returns a new array) or selectedId changed, and sets draft
\* to a copy of the selected note, or to null.
DraftEffectRuns(touched, sel) == touched \/ sel # selectedId

SyncDraft(ns, sel, d, touched) ==
    IF DraftEffectRuns(touched, sel) THEN Find(ns, sel) ELSE d

\* Number of renders a step causes: one for the state the handler sets, one
\* more when the draft effect sets a draft (setDraft(null) over null bails
\* out).
Renders(ns, sel, d, touched) ==
    1 + (IF /\ DraftEffectRuns(touched, sel)
            /\ ~(d = NoNote /\ Find(ns, sel) = NoNote)
         THEN 1 ELSE 0)

\* The bootstrap effect depends on [replaceAll], and useLocalNotes builds a
\* new replaceAll on every render: each of the n renders of a step cancels
\* the bootstrap before it and, when the API is enabled, issues listNotes()
\* again.
Bootstrap(n) ==
    /\ enabled => listCalls + n <= MaxListCalls
    /\ boot' = IF enabled THEN "pending" ELSE boot
    /\ listCalls' = IF enabled THEN listCalls + n ELSE listCalls

\* A user action is handled.
UserAction ==
    /\ mounted
    /\ acts < MaxActions
    /\ acts' = acts + 1

\* A response body of the backend to POST /notes: body is FALSE for an empty
\* or null body, id = 0 and updatedAt = 0 stand for a field the body lacks.
NoResp == [body |-> FALSE, id |-> 0, updatedAt |-> 0]

----------------------------------------------------------------------------
(* Start *)

Init ==
    /\ enabled \in BOOLEAN
    /\ mounted = FALSE
    /\ notes = << >>
    /\ selectedId = 0
    /\ draft = NoNote
    /\ validation = << >>
    /\ isSaving = FALSE
    /\ toast = NoToast
    /\ now = 1
    /\ nextId = 0
    /\ listIds = 0
    /\ ops = {}
    /\ boot = "none"
    /\ listCalls = 0
    /\ replaceAlls = 0
    /\ acts = 0

Seed(t) ==
    << [id |-> 1, title |-> WelcomeTitle, content |-> WelcomeContent, updatedAt |-> t],
       [id |-> 2, title |-> ProTipTitle, content |-> ProTipContent, updatedAt |-> t] >>

\* The effects of the first commit, which rendered notes = []: the store is
\* seeded, bootstrap() runs, the draft effect finds nothing and the
\* select-first effect sets mounted.current without selecting; then the
\* render of the seeded store, whose bootstrap effect runs again.
Mount ==
    /\ ~mounted
    /\ mounted' = TRUE
    /\ notes' = (IF Len(notes) > 0 THEN notes ELSE Seed(now))
    /\ nextId' = 2
    /\ selectedId' = (IF Len(notes) > 0 THEN notes[1].id ELSE selectedId)
    /\ draft' = SyncDraft(notes', selectedId', draft, TRUE)
    /\ Bootstrap(2)
    /\ UNCHANGED << enabled, validation, isSaving, toast, now, ops, replaceAlls, acts,
                    listIds >>

\* Time passes.
Tick ==
    /\ now < MaxTime
    /\ now' = now + 1
    /\ UNCHANGED << enabled, mounted, notes, selectedId, draft, validation,
                    isSaving, toast, nextId, ops, boot, listCalls, replaceAlls, acts,
                    listIds >>

----------------------------------------------------------------------------
(* Create *)

\* A remote call in flight with what its continuation closes over: the note
\* created, found (existing) or saved over (prev), and the notes array of
\* the render the handler ran in.  timer is the 7 s abort timer of http,
\* set when the call is issued.
Op(kind, note, ns) == [kind |-> kind, note |-> note, notes |-> ns, timer |-> TRUE]

\* newNote calling api.createNote without asking api.isEnabled()
NewNoteAlwaysSyncs ==
    /\ UserAction
    /\ LET created == CreateItem([title |-> Untitled, content |-> << >>],
                                 nextId + 1, now)
       IN /\ notes' = Prepend(created, notes)
          /\ nextId' = nextId + 1
          /\ selectedId' = created.id
          /\ draft' = SyncDraft(notes', selectedId', draft, TRUE)
          /\ ops' = ops \cup {Op("create", created, notes)}
          /\ toast' = toast
          /\ Bootstrap(Renders(notes', selectedId', draft, TRUE))
    /\ UNCHANGED << enabled, mounted, validation, isSaving, now, replaceAlls,
                    listIds >>

\* newNote, up to the call of api.createNote
NewNote ==
    /\ UserAction
    /\ LET created == CreateItem([title |-> Untitled, content |-> << >>],
                                 nextId + 1, now)
       IN /\ notes' = Prepend(created, notes)
          /\ nextId' = nextId + 1
          /\ selectedId' = created.id
          /\ draft' = SyncDraft(notes', selectedId', draft, TRUE)
          /\ ops' = (IF enabled THEN ops \cup {Op("create", created, notes)} ELSE ops)
          /\ toast' = (IF enabled THEN toast ELSE Toast("Note created", "success"))
          /\ Bootstrap(Renders(notes', selectedId', draft, TRUE))
    /\ UNCHANGED << enabled, mounted, validation, isSaving, now, replaceAlls,
                    listIds >>

\* The identifier the backend gives the note created under the local id.
ServerId(id) == id + 100

\* What POST /notes may answer for created: nothing, or a note without an
\* identifier, under the identifier sent or under the backend's own, without
\* an updatedAt or with the one sent.
Saved(created) ==
    {NoResp}
    \cup {[body |-> TRUE, id |-> i, updatedAt |-> t] :
            i \in {0, created.id, ServerId(created.id)}, t \in {0, created.updatedAt}}

\* saved && saved.id && saved.id !== created.id
Rebinds(saved, created) == saved.body /\ saved.id # 0 /\ saved.id # created.id

\* The patch of the reconciliation: { id: newId, updatedAt: saved.updatedAt || now }
RebindPatch(saved, t) ==
    [id |-> saved.id, updatedAt |-> IF saved.updatedAt # 0 THEN saved.updatedAt ELSE t]

\* newNote: .then((saved) => ...)
CreateOk(op, saved) ==
    /\ op.kind = "create"
    /\ ops' = ops \ {op}
    /\ IF Rebinds(saved, op.note)
       THEN /\ notes' = Update(notes, op.note.id, RebindPatch(saved, now), now)
            /\ selectedId' = saved.id
            /\ draft' = SyncDraft(notes', selectedId', draft, TRUE)
            /\ Bootstrap(Renders(notes', selectedId', draft, TRUE))
       ELSE /\ UNCHANGED << notes, selectedId, draft >>
            /\ Bootstrap(1)
    /\ toast' = Toast("Note created", "success")
    /\ UNCHANGED << enabled, mounted, validation, isSaving, now, nextId, replaceAlls, acts,
                    listIds >>

\* newNote: .catch(() => ...)
CreateFail(op) ==
    /\ op.kind = "create"
    /\ ops' = ops \ {op}
    /\ notes' = Remove(notes, op.note.id)
    /\ draft' = SyncDraft(notes', selectedId, draft, TRUE)
    /\ toast' = Toast("Failed to sync create", "error")
    /\ Bootstrap(Renders(notes', selectedId, draft, TRUE))
    /\ UNCHANGED << enabled, mounted, selectedId, validation, isSaving, now, nextId,
                    replaceAlls, acts,
                    listIds >>

----------------------------------------------------------------------------
(* Delete *)

\* The identifiers a delete button can be clicked for: those of the notes
\* listed, and of notes whose delete is in flight (a second click).
Deletable == Ids(notes) \cup {op.note.id : op \in {o \in ops : o.kind = "delete"}}

\* the rollback of onDelete putting the restored note last
RestoreLast(existing, ns, t) ==
    Remove(ns, existing.id) \o << [existing EXCEPT !.updatedAt = t] >>

\* the rollback of onDelete without the filter: [restored, ...notes]
RestoreUnfiltered(existing, ns, t) ==
    << [existing EXCEPT !.updatedAt = t] >> \o ns

\* onDelete: the rollback, replaceAll([restored, ...notes.filter(...)]) over
\* the notes array the handler closed over
Restore(existing, ns, t) ==
    << [existing EXCEPT !.updatedAt = t] >> \o Remove(ns, existing.id)

\* onDelete without the line that clears the selection
OnDeleteKeepsSelection(id) ==
    /\ UserAction
    /\ LET existing == Find(notes, id)
       IN IF existing = NoNote
          THEN UNCHANGED << notes, selectedId, draft, ops, toast, boot, listCalls >>
          ELSE /\ notes' = Remove(notes, id)
               /\ selectedId' = selectedId
               /\ draft' = SyncDraft(notes', selectedId', draft, TRUE)
               /\ ops' = (IF enabled THEN ops \cup {Op("delete", existing, notes)} ELSE ops)
               /\ toast' = (IF enabled THEN toast ELSE Toast("Note deleted", "success"))
               /\ Bootstrap(Renders(notes', selectedId', draft, TRUE))
    /\ UNCHANGED << enabled, mounted, validation, isSaving, now, nextId, replaceAlls,
                    listIds >>

\* onDelete, up to the call of api.deleteNote
OnDelete(id) ==
    /\ UserAction
    /\ LET existing == Find(notes, id)
       IN IF existing = NoNote
          THEN UNCHANGED << notes, selectedId, draft, ops, toast, boot, listCalls >>
          ELSE /\ notes' = Remove(notes, id)
               /\ selectedId' = (IF selectedId = id THEN 0 ELSE selectedId)
               /\ draft' = SyncDraft(notes', selectedId', draft, TRUE)
               /\ ops' = (IF enabled THEN ops \cup {Op("delete", existing, notes)} ELSE ops)
               /\ toast' = (IF enabled THEN toast ELSE Toast("Note deleted", "success"))
               /\ Bootstrap(Renders(notes', selectedId', draft, TRUE))
    /\ UNCHANGED << enabled, mounted, validation, isSaving, now, nextId, replaceAlls,
                    listIds >>

\* onDelete: .then(() => showToast('Note deleted'))
DeleteOk(op) ==
    /\ op.kind = "delete"
    /\ ops' = ops \ {op}
    /\ toast' = Toast("Note deleted", "success")
    /\ Bootstrap(1)
    /\ UNCHANGED << enabled, mounted, notes, selectedId, draft, validation, isSaving,
                    now, nextId, replaceAlls, acts,
                    listIds >>

\* onDelete: .catch(() => ...)
DeleteFail(op) ==
    /\ op.kind = "delete"
    /\ ops' = ops \ {op}
    /\ notes' = Restore(op.note, op.notes, now)
    /\ draft' = SyncDraft(notes', selectedId, draft, TRUE)
    /\ toast' = Toast("Failed to sync delete", "error")
    /\ Bootstrap(Renders(notes', selectedId, draft, TRUE))
    /\ UNCHANGED << enabled, mounted, selectedId, validation, isSaving, now, nextId,
                    replaceAlls, acts,
                    listIds >>

----------------------------------------------------------------------------
(* Selecting and editing *)

\* Sidebar: onSelect(n.id) of a listed note
Select(id) ==
    /\ UserAction
    /\ id \in Ids(notes)
    /\ id # selectedId
    /\ selectedId' = id
    /\ draft' = SyncDraft(notes, id, draft, FALSE)
    /\ Bootstrap(Renders(notes, id, draft, FALSE))
    /\ UNCHANGED << enabled, mounted, notes, validation, isSaving, toast, now, nextId,
                    ops, replaceAlls,
                    listIds >>

\* The titles and contents typed into the editor.
EditTitles ==
    {<< >>, << " " >>, Repeat("a", MaxTitleLen), Repeat("a", MaxTitleLen + 1)}

EditContents == {<< "c" >>}

EditPatches ==
    {[title |-> t] : t \in EditTitles} \cup {[content |-> c] : c \in EditContents}

\* onChangeDraft: setDraft((d) => ({ ...d, ...patch })); the Editor is
\* rendered only for a draft
OnChangeDraft(patch) ==
    /\ UserAction
    /\ draft # NoNote
    /\ draft' = [f \in DOMAIN draft |-> IF f \in DOMAIN patch THEN patch[f] ELSE draft[f]]
    /\ draft' # draft
    /\ Bootstrap(1)
    /\ UNCHANGED << enabled, mounted, notes, selectedId, validation, isSaving, toast,
                    now, nextId, ops, replaceAlls,
                    listIds >>

\* validate with the length test off by one
ValidateOffByOne(note) ==
    IF note.title = << >> \/ Trim(note.title) = << >>
    THEN [f \in {"title"} |-> "Title is required"]
    ELSE IF Len(note.title) >= MaxTitleLen
         THEN [f \in {"title"} |-> "Title must be at most 120 characters"]
         ELSE << >>

\* validate: the errors of a note, a mapping from field name to message
Validate(note) ==
    IF note.title = << >> \/ Trim(note.title) = << >>
    THEN [f \in {"title"} |-> "Title is required"]
    ELSE IF Len(note.title) > MaxTitleLen
         THEN [f \in {"title"} |-> "Title must be at most 120 characters"]
         ELSE << >>

\* onSave, up to the call of api.updateNote; the Save button is disabled
\* while isSaving
OnSave ==
    /\ UserAction
    /\ draft # NoNote
    /\ ~isSaving
    /\ LET errors == Validate(draft)
           prev == Find(notes, draft.id)
       IN IF DOMAIN errors # {}
          THEN /\ validation' = errors
               /\ Bootstrap(1)
               /\ UNCHANGED << notes, draft, isSaving, ops, toast >>
          ELSE /\ validation' = << >>
               /\ isSaving' = enabled
               /\ notes' = Update(notes, draft.id,
                                  [title |-> draft.title, content |-> draft.content], now)
               /\ draft' = SyncDraft(notes', selectedId, draft, TRUE)
               /\ ops' = (IF enabled THEN ops \cup {Op("save", prev, << >>)} ELSE ops)
               /\ toast' = (IF enabled THEN toast ELSE Toast("Saved", "success"))
               /\ Bootstrap(Renders(notes', selectedId, draft, TRUE))
    /\ UNCHANGED << enabled, mounted, selectedId, now, nextId, replaceAlls,
                    listIds >>

\* onSave: after await api.updateNote resolved
SaveOk(op) ==
    /\ op.kind = "save"
    /\ ops' = ops \ {op}
    /\ toast' = Toast("Saved", "success")
    /\ isSaving' = FALSE
    /\ Bootstrap(1)
    /\ UNCHANGED << enabled, mounted, notes, selectedId, draft, validation, now,
                    nextId, replaceAlls, acts,
                    listIds >>

\* onSave: catch (e), after await api.updateNote rejected (an error status,
\* a network error or the abort of the 7 s timeout)
SaveFail(op) ==
    /\ op.kind = "save"
    /\ ops' = ops \ {op}
    /\ IF op.note # NoNote
       THEN /\ notes' = Update(notes, op.note.id, op.note, now)
            /\ draft' = SyncDraft(notes', selectedId, draft, TRUE)
            /\ Bootstrap(Renders(notes', selectedId, draft, TRUE))
       ELSE /\ UNCHANGED << notes, draft >>
            /\ Bootstrap(1)
    /\ toast' = Toast("Failed to sync save", "error")
    /\ isSaving' = FALSE
    /\ UNCHANGED << enabled, mounted, selectedId, validation, now, nextId, replaceAlls, acts,
                    listIds >>

\* showToast: setTimeout(() => setToast(null), 2200)
DismissToast ==
    /\ toast # NoToast
    /\ toast' = NoToast
    /\ Bootstrap(1)
    /\ UNCHANGED << enabled, mounted, notes, selectedId, draft, validation, isSaving,
                    now, nextId, ops, replaceAlls, acts,
                    listIds >>

----------------------------------------------------------------------------
(* Bootstrap *)

\* Elements of the array GET /notes answers with.  id = 0, _id = 0 and
\* updatedAt = 0 stand for a field the element lacks; title and content are
\* << >> when the element lacks them and << s >> when it has the string s.
Raw(id, xid, title, content, updatedAt) ==
    [id |-> id, _id |-> xid, title |-> title, content |-> content,
     updatedAt |-> updatedAt]

Listings ==
    { << Raw(101, 0, << << "a" >> >>, << << "c" >> >>, 1),
         Raw(0, 102, << >>, << >>, 2) >>,
      << Raw(103, 0, << Untitled >>, << << >> >>, 0),
         Raw(0, 0, << << >> >>, << >>, 1) >> }

\* Number of elements that get their identifier from uid()
Unnamed(raw) == Cardinality({i \in 1..Len(raw) : raw[i].id = 0 /\ raw[i]._id = 0})

\* bootstrap: serverNotes.map((n) => ({ id: String(n.id ?? n._id ?? uid()), ... })),
\* with k identifiers handed out by uid() so far
RECURSIVE Normalize(_, _, _)
Normalize(raw, k, t) ==
    IF raw = << >> THEN << >>
    ELSE LET n == Head(raw)
             fresh == n.id = 0 /\ n._id = 0
         IN << [id |-> IF n.id # 0 THEN n.id ELSE IF n._id # 0 THEN n._id ELSE k + 1,
                title |-> IF n.title # << >> THEN n.title[1] ELSE Untitled,
                content |-> IF n.content # << >> THEN n.content[1] ELSE << >>,
                updatedAt |-> IF n.updatedAt # 0 THEN n.updatedAt ELSE t] >>
            \o Normalize(Tail(raw), IF fresh THEN k + 1 ELSE k, t)

\* the sort of bootstrap with the comparison turned round: earliest first
RECURSIVE InsertByDateAsc(_, _)
InsertByDateAsc(n, sorted) ==
    IF sorted = << >> THEN << n >>
    ELSE IF Head(sorted).updatedAt > n.updatedAt
         THEN << n >> \o sorted
         ELSE << Head(sorted) >> \o InsertByDateAsc(n, Tail(sorted))

\* Array.prototype.sort with (a, b) => new Date(b.updatedAt) - new Date(a.updatedAt):
\* a stable sort, latest first
RECURSIVE InsertByDate(_, _)
InsertByDate(n, sorted) ==
    IF sorted = << >> THEN << n >>
    ELSE IF Head(sorted).updatedAt < n.updatedAt
         THEN << n >> \o sorted
         ELSE << Head(sorted) >> \o InsertByDate(n, Tail(sorted))

RECURSIVE SortByDate(_)
SortByDate(ns) ==
    IF ns = << >> THEN << >>
    ELSE InsertByDate(Head(ns), SortByDate(Tail(ns)))

\* bootstrap: listNotes() resolved with an array and the effect was not
\* cancelled
ListOk(raw) ==
    /\ boot = "pending"
    /\ listIds + Unnamed(raw) <= MaxListUid
    /\ notes' = SortByDate(Normalize(raw, nextId, now))
    /\ nextId' = nextId + Unnamed(raw)
    /\ listIds' = listIds + Unnamed(raw)
    /\ replaceAlls' = Count(replaceAlls, 1)
    /\ draft' = SyncDraft(notes', selectedId, draft, TRUE)
    /\ Bootstrap(Renders(notes', selectedId, draft, TRUE))
    /\ UNCHANGED << enabled, mounted, selectedId, validation, isSaving, toast, now, ops,
                    acts >>

\* a bootstrap that answers a failed listNotes() by emptying the store and
\* reporting the failure
ListFailClears ==
    /\ boot = "pending"
    /\ boot' = "settled"
    /\ notes' = << >>
    /\ toast' = Toast("Failed to load notes", "error")
    /\ UNCHANGED << enabled, mounted, selectedId, draft, validation, isSaving,
                    now, nextId, ops, listCalls, replaceAlls, acts, listIds >>

\* bootstrap: listNotes() rejected, or resolved with something that is no
\* array
ListFail ==
    /\ boot = "pending"
    /\ boot' = "settled"
    /\ UNCHANGED << enabled, mounted, notes, selectedId, draft, validation, isSaving,
                    toast, now, nextId, ops, listCalls, replaceAlls, acts,
                    listIds >>

----------------------------------------------------------------------------
(* The state machine *)

Next ==
    \/ Mount
    \/ Tick
    \/ NewNote
    \/ \E op \in ops : \E saved \in Saved(op.note) : CreateOk(op, saved)
    \/ \E op \in ops : CreateFail(op)
    \/ \E id \in Deletable : OnDelete(id)
    \/ \E op \in ops : DeleteOk(op)
    \/ \E op \in ops : DeleteFail(op)
    \/ \E id \in Ids(notes) : Select(id)
    \/ \E patch \in EditPatches : OnChangeDraft(patch)
    \/ OnSave
    \/ \E op \in ops : SaveOk(op)
    \/ \E op \in ops : SaveFail(op)
    \/ DismissToast
    \/ \E raw \in Listings : ListOk(raw)
    \/ ListFail

Spec == Init /\ [][Next]_vars

----------------------------------------------------------------------------
(* The remote call of one create, delete or save, step by step: http sets  *)
(* the abort timer, awaits fetch, clears the timer when fetch resolves     *)
(* with the status and headers of the response, and only then reads the    *)
(* body (res.text() for an error status, res.json() otherwise).            *)

\* http: fetch resolved and clearTimeout(timeout) ran; the body is yet to be
\* read
Headers(op) ==
    /\ op.timer
    /\ ops' = (ops \ {op}) \cup {[op EXCEPT !.timer = FALSE]}
    /\ UNCHANGED << enabled, mounted, notes, selectedId, draft, validation, isSaving,
                    toast, now, nextId, listIds, boot, listCalls, replaceAlls, acts >>

\* http: the timer fires while fetch is pending, controller.abort() rejects
\* fetch and the caller's catch runs
Timeout(op) ==
    /\ op.timer
    /\ CreateFail(op) \/ DeleteFail(op) \/ SaveFail(op)

\* The application is mounted on the seeded store with the API enabled, and
\* a note may be selected.
InitLive ==
    /\ enabled = TRUE
    /\ mounted = TRUE
    /\ now \in 1..MaxTime
    /\ notes = Seed(1)
    /\ selectedId \in {0} \cup Ids(notes)
    /\ draft = Find(notes, selectedId)
    /\ validation = << >>
    /\ isSaving = FALSE
    /\ toast = NoToast
    /\ nextId = 2
    /\ listIds = 0
    /\ ops = {}
    /\ boot = "pending"
    /\ listCalls = 2
    /\ replaceAlls = 0
    /\ acts = 0

\* One create, delete or save, and what follows from it.
NextLive ==
    \/ Tick
    \/ acts = 0 /\ NewNote
    \/ acts = 0 /\ \E id \in Ids(notes) : OnDelete(id)
    \/ acts = 0 /\ OnSave
    \/ \E op \in ops : Headers(op)
    \/ \E op \in ops : \E saved \in Saved(op.note) : CreateOk(op, saved)
    \/ \E op \in ops : CreateFail(op)
    \/ \E op \in ops : DeleteOk(op)
    \/ \E op \in ops : DeleteFail(op)
    \/ \E op \in ops : SaveOk(op)
    \/ \E op \in ops : SaveFail(op)
    \/ DismissToast

\* The browser runs a timer that is due: the abort timer of a call fires
\* unless it is cleared first.  Nothing obliges the backend to answer.
SpecLive ==
    InitLive /\ [][NextLive]_vars /\ WF_vars(\E op \in ops : Timeout(op))

----------------------------------------------------------------------------
(* validate on its own: a draft of a seeded note, with any of the titles   *)
(* and contents below typed in, is saved with the backend disabled.        *)

TestTitles ==
    { << >>, << " " >>, << "\t" >>, << " ", " " >>, << "a" >>, << " ", "a" >>,
      << "a", " " >>, << " ", "a", " " >>, << "a", " ", "a" >>,
      Repeat("a", 119), Repeat("a", 120), Repeat("a", 121),
      << " " >> \o Repeat("a", 119), << " " >> \o Repeat("a", 120),
      Repeat("a", 120) \o << " " >>, Repeat(" ", 121) }

TestContents == {<< >>, << "c" >>, Repeat("c", 121)}

InitValidate ==
    /\ enabled = FALSE
    /\ mounted = TRUE
    /\ now \in 1..MaxTime
    /\ notes = Seed(1)
    /\ selectedId \in Ids(notes)
    /\ draft \in {[Find(notes, selectedId) EXCEPT !.title = t, !.content = c] :
                    t \in TestTitles, c \in TestContents}
    /\ validation = << >>
    /\ isSaving = FALSE
    /\ toast = NoToast
    /\ nextId = 2
    /\ listIds = 0
    /\ ops = {}
    /\ boot = "none"
    /\ listCalls = 0
    /\ replaceAlls = 0
    /\ acts = 0

NextValidate == OnSave /\ acts = 0

SpecValidate == InitValidate /\ [][NextValidate]_vars

----------------------------------------------------------------------------
(* Properties *)

Others(ns, id) == SelectSeq(ns, LAMBDA n : n.id # id)

Occurrences(ns, id) == Cardinality({i \in 1..Len(ns) : ns[i].id = id})

\* No other protocol of the note of op is in flight.
Alone(op) == \A o \in ops \ {op} : o.note.id # op.note.id

C2_SaveRollbackExact ==
    [][\A op \in ops :
          SaveFail(op) /\ op.note.id \in Ids(notes) =>
              Find(notes', op.note.id) = op.note]_vars

\* C3: when the remote delete of a delete action fails, the deleted note is
\* in the store again, once and at the front, with the id, title and content
\* of the record captured before the delete.
C3_DeleteRollback ==
    [][\A op \in ops :
          DeleteFail(op) =>
              /\ Len(notes') >= 1
              /\ notes'[1].id = op.note.id
              /\ notes'[1].title = op.note.title
              /\ notes'[1].content = op.note.content
              /\ Occurrences(notes', op.note.id) = 1]_vars

\* C3, reached: the delete of the second seeded note has failed, and the
\* note is back, in front of the first.
C3_Witness ==
    /\ toast = Toast("Failed to sync delete", "error")
    /\ Len(notes) = 2
    /\ notes[1].id = 2 /\ notes[1].title = ProTipTitle /\ notes[1].content = ProTipContent
    /\ notes[2].id = 1

\* C4: when the remote create succeeds with an identifier other than the
\* local one (and no other protocol of that note is in flight), exactly one
\* note of the store has the server identifier afterwards and none has the
\* local one.
C4_RebindExactlyOne ==
    [][\A op \in ops : \A saved \in Saved(op.note) :
          (/\ CreateOk(op, saved)
           /\ Alone(op)
           /\ saved.body /\ saved.id \notin {0, op.note.id}) =>
              /\ Occurrences(notes', saved.id) = 1
              /\ op.note.id \notin Ids(notes')]_vars

\* C5: when a create is acknowledged with another identifier and an
\* updatedAt, the rebound note has the updatedAt of the response.
C5_RebindServerTime ==
    [][\A op \in ops : \A saved \in Saved(op.note) :
          (/\ CreateOk(op, saved)
           /\ saved.body /\ saved.id \notin {0, op.note.id}
           /\ saved.updatedAt # 0
           /\ saved.id \in Ids(notes')) =>
              Find(notes', saved.id).updatedAt = saved.updatedAt]_vars

\* C6: the bootstrap runs once: at most one listNotes() call is issued and
\* at most one remote listing is applied.
C6_BootstrapOnce == listCalls <= 1 /\ replaceAlls <= 1

\* C7: the rollback of a failed remote call changes only the note of the
\* failing action: every other note in the store just before it is in the
\* store, with the same fields, just after it.
C7_RollbackOwnNoteOnly ==
    [][\A op \in ops :
          CreateFail(op) \/ DeleteFail(op) \/ SaveFail(op) =>
              \A i \in 1..Len(notes) :
                  notes[i].id # op.note.id =>
                      \E j \in 1..Len(notes') : notes'[j] = notes[i]]_vars

\* C8: while the remote create of a create action is in flight (and no other
\* protocol of that note is), the store contains the created note.
C8_CreatedStaysVisible ==
    \A op \in ops :
        op.kind = "create" /\ Alone(op) => op.note.id \in Ids(notes)

\* A title validation rejects: blank, or longer than 120 characters.
Rejected(title) ==
    \/ \A i \in 1..Len(title) : IsWhitespace(title[i])
    \/ Len(title) > 120

\* C9: a save whose draft fails validation changes nothing in the store and
\* issues no remote call.
C9_InvalidSaveNoEffect ==
    [][OnSave /\ Rejected(draft.title) =>
          /\ notes' = notes
          /\ ops' = ops
          /\ listCalls' = listCalls]_vars

\* What validation is to answer for a title.
Expected(title) ==
    IF \A i \in 1..Len(title) : IsWhitespace(title[i])
    THEN [f \in {"title"} |-> "Title is required"]
    ELSE IF Len(title) > 120
         THEN [f \in {"title"} |-> "Title must be at most 120 characters"]
         ELSE << >>

\* C10: validate answers "Title is required" for an empty or blank title,
\* "Title must be at most 120 characters" for a title that is not blank and
\* longer than 120 characters, and nothing otherwise, whatever the content
\* and the store: after the save of a draft, validation is what the title of
\* the draft calls for (a valid draft is in the store, and the draft is the
\* stored note; an invalid one is still the draft).
C10_Validate == acts = 1 => validation = Expected(draft.title)

\* C10, reached: a draft with a title of exactly 120 characters and a content
\* of 121 was saved without a validation error and is in the store.
C10_Witness ==
    /\ acts = 1
    /\ draft.title = Repeat("a", 120)
    /\ Len(draft.content) = 121
    /\ validation = << >>
    /\ Find(notes, draft.id).title = draft.title

\* The bijections of 1..n
Bijections(n) ==
    {p \in [1..n -> 1..n] : \A i, j \in 1..n : p[i] = p[j] => i = j}

\* n is the element r of a remote listing, normalized at time t over the
\* store ns: the identifier of r (id, else _id, else a fresh one), its title
\* or "Untitled", its content or "", its updatedAt or t.
NormalOf(r, n, ns, t) ==
    /\ r.id # 0 => n.id = r.id
    /\ r.id = 0 /\ r._id # 0 => n.id = r._id
    /\ r.id = 0 /\ r._id = 0 => n.id # 0 /\ n.id \notin Ids(ns)
    /\ n.title = (IF r.title = << >> THEN Untitled ELSE r.title[1])
    /\ n.content = (IF r.content = << >> THEN << >> ELSE r.content[1])
    /\ n.updatedAt = (IF r.updatedAt = 0 THEN t ELSE r.updatedAt)

\* C11: when the API is enabled and listNotes() succeeds, the store holds
\* afterwards exactly the normalized records of the listing, one note for
\* each record and nothing else (none of the notes it held before), latest
\* updatedAt first.
C11_ListReplaces ==
    [][\A raw \in Listings :
          ListOk(raw) =>
              /\ enabled
              /\ Len(notes') = Len(raw)
              /\ \E p \in Bijections(Len(raw)) :
                    \A i \in 1..Len(raw) : NormalOf(raw[i], notes'[p[i]], notes, now)
              /\ \A i \in 1..(Len(notes') - 1) :
                    notes'[i].updatedAt >= notes'[i + 1].updatedAt]_vars

\* C11, reached: the listing of a note updated at 1 under id 101 and of a
\* note without title updated at 2 under _id 102 has replaced the store, the
\* later note first.
C11_Witness ==
    /\ replaceAlls >= 1
    /\ notes = << [id |-> 102, title |-> Untitled, content |-> << >>, updatedAt |-> 2],
                  [id |-> 101, title |-> << "a" >>, content |-> << "c" >>, updatedAt |-> 1] >>

C13_DisabledNoRemote ==
    [][~enabled =>
          /\ ops' = {} /\ listCalls' = 0 /\ boot' = "none"
          /\ NewNote =>
                /\ Len(notes') = Len(notes) + 1
                /\ notes'[1].title = Untitled
                /\ notes'[1].id \notin Ids(notes)
                /\ SubSeq(notes', 2, Len(notes')) = notes
                /\ toast' = Toast("Note created", "success")
          /\ \A id \in Deletable :
                OnDelete(id) => toast' = Toast("Note deleted", "success")
          /\ OnSave /\ ~Rejected(draft.title) =>
                toast' = Toast("Saved", "success") /\ ~isSaving']_vars

\* C13, reached: without a backend a note was created: the store is the new
\* note and the two seeded ones, success is reported and no call was issued.
C13_Witness ==
    /\ ~enabled
    /\ toast = Toast("Note created", "success")
    /\ Len(notes) = 3 /\ notes[1].title = Untitled /\ notes[1].id = 3
    /\ ops = {} /\ listCalls = 0

\* C14: in every reachable state no two notes of the store have the same
\* id.
C14_UniqueIds ==
    \A i, j \in 1..Len(notes) : notes[i].id = notes[j].id => i = j

\* C14, reached: a created note has been rebound to the identifier of the
\* backend and is selected under it: three notes, three identifiers.
C14_Witness ==
    /\ toast = Toast("Note created", "success")
    /\ Len(notes) = 3
    /\ Ids(notes) = {1, 2, ServerId(3)}
    /\ selectedId = ServerId(3)

\* C15: in every reachable state every note of the store has a title that
\* is not empty.
C15_TitleNonEmpty ==
    \A i \in 1..Len(notes) : notes[i].title # << >>

\* A remote call of op has failed and its catch runs.
Fails(op) == CreateFail(op) \/ DeleteFail(op) \/ SaveFail(op)

\* C16: there is no retry.  The step that handles a create, delete or save
\* action issues at most one remote call; the step that handles the failure
\* of that call reports it with an error toast, takes the call out of the
\* calls in flight and issues no remote call.
C16_NoRetry ==
    [][/\ (NewNote \/ (\E id \in Deletable : OnDelete(id)) \/ OnSave) =>
             /\ ops \subseteq ops'
             /\ Cardinality(ops' \ ops) + (listCalls' - listCalls) <= 1
       /\ \A op \in ops :
             Fails(op) =>
                 /\ ops' = ops \ {op}
                 /\ toast'.variant = "error"
                 /\ listCalls' = listCalls]_vars

\* C17: every create, delete or save protocol that has issued its remote
\* call completes (the call is taken out of the calls in flight by the step
\* that reports success or failure), whatever the backend does.
C17_ProtocolCompletes == (ops # {}) ~> (ops = {})

\* Every note of ns that is in ms under the same id has there an updatedAt
\* that is not earlier.
NotEarlier(ns, ms) ==
    \A i \in 1..Len(ns) : \A j \in 1..Len(ms) :
        ns[i].id = ms[j].id => ms[j].updatedAt >= ns[i].updatedAt

\* C18: updatedAt of a note never decreases.  A save, the rollback of a
\* failed save, the rebinding of an identifier and the restoration after a
\* failed delete leave every note of the store with an updatedAt greater
\* than or equal to the one it had before; the rebound note is compared with
\* the note under the local id, the restored note with the record captured
\* before the delete.
C18_UpdatedAtMonotone ==
    [][/\ OnSave => NotEarlier(notes, notes')
       /\ \A op \in ops :
             /\ SaveFail(op) => NotEarlier(notes, notes')
             /\ DeleteFail(op) =>
                   /\ NotEarlier(notes, notes')
                   /\ notes'[1].updatedAt >= op.note.updatedAt
             /\ \A saved \in Saved(op.note) :
                   CreateOk(op, saved) =>
                       /\ NotEarlier(notes, notes')
                       /\ Rebinds(saved, op.note) /\ saved.id \in Ids(notes') =>
                             Find(notes', saved.id).updatedAt
                                >= Find(notes, op.note.id).updatedAt]_vars

\* C19: the step that handles a delete action takes the note out of the
\* store while the remote delete call it issues is still in flight, and sets
\* the selection to null when the deleted note was the selected one and
\* leaves it otherwise; for an identifier that is not in the store it
\* changes nothing and issues no remote call.
C19_DeleteAtOnce ==
    [][\A id \in Deletable :
          OnDelete(id) =>
              IF id \in Ids(notes)
              THEN /\ notes' = Others(notes, id)
                   /\ selectedId' = (IF selectedId = id THEN 0 ELSE selectedId)
                   /\ enabled => \E op \in ops' :
                                    op.kind = "delete" /\ op.note = Find(notes, id)
              ELSE /\ << notes', selectedId', draft', toast' >>
                        = << notes, selectedId, draft, toast >>
                   /\ ops' = ops
                   /\ listCalls' = listCalls]_vars

\* C19, reached: the note created and selected a step before has been
\* deleted: it is not in the store, nothing is selected, and both its remote
\* create and its remote delete are in flight.
C19_Witness ==
    /\ acts = 2
    /\ 3 \notin Ids(notes)
    /\ Len(notes) = 2
    /\ selectedId = 0
    /\ \E op \in ops : op.kind = "delete" /\ op.note.id = 3

\* ms has as many notes as ns and, at every position but those of the note
\* under id, the very note ns has there.
SamePlaces(ns, ms, id) ==
    /\ Len(ms) = Len(ns)
    /\ \A i \in 1..Len(ns) : ns[i].id # id => ms[i] = ns[i]

\* C20: the store is never re-sorted by a mutation.  A create puts the new
\* note at position 1 and leaves the rest of the store as it was; a save,
\* the rollback of a failed save and the rebinding of an identifier keep
\* every note at its position and change only the note they are about; the
\* rollback of a failed create and a delete take their note out and keep the
\* others in their order.
C20_NoResort ==
    [][/\ NewNote =>
             /\ Len(notes') = Len(notes) + 1
             /\ notes'[1].id \notin Ids(notes)
             /\ SubSeq(notes', 2, Len(notes')) = notes
       /\ OnSave =>
             /\ SamePlaces(notes, notes', draft.id)
             /\ \A i \in 1..Len(notes) : notes'[i].id = notes[i].id
       /\ \A id \in Deletable : OnDelete(id) => notes' = Others(notes, id)
       /\ \A op \in ops :
             /\ SaveFail(op) =>
                   /\ SamePlaces(notes, notes', op.note.id)
                   /\ \A i \in 1..Len(notes) : notes'[i].id = notes[i].id
             /\ CreateFail(op) => notes' = Others(notes, op.note.id)
             /\ \A saved \in Saved(op.note) :
                   CreateOk(op, saved) =>
                       /\ SamePlaces(notes, notes', op.note.id)
                       /\ \A i \in 1..Len(notes) :
                             notes'[i].id =
                                (IF notes[i].id = op.note.id /\ Rebinds(saved, op.note)
                                 THEN saved.id ELSE notes[i].id)]_vars

\* C20, reached: a note was created in front of the two seeded notes, and
\* the first seeded note, saved later, is still second.
C20_Witness ==
    /\ Len(notes) = 3
    /\ notes[1].id = 3 /\ notes[2].id = 1 /\ notes[3].id = 2
    /\ notes[2].updatedAt > notes[1].updatedAt

\* The update calls of saves in flight.
Saves == {op \in ops : op.kind = "save"}

\* C21: isSaving is true only while the update call of a save is in flight;
\* at most one update call is in flight at any time; and whenever isSaving
\* is true it is false again later.
C21_SavingFlag ==
    /\ [](isSaving => Saves # {})
    /\ [](Cardinality(Saves) <= 1)
    /\ (isSaving ~> ~isSaving)

\* C22: the selection never dangles: selectedId is null or the id of a note
\* that is in the store.  (Every state of the model is one in which no store
\* update is pending: a step ends with the render of the state it has set.)
C22_SelectionValid == selectedId = 0 \/ selectedId \in Ids(notes)

====
